---- MODULE Spec2Model ----
(***************************************************************************)
(* A model of src/nba_live.py: the field projector (_extract_fields), the  *)
(* season resolver (_current_season), the statistic fetchers and the       *)
(* keyword dispatcher (handle_nba_query).                                  *)
(*                                                                         *)
(* Text is a sequence of one-character strings.  A Python value is a       *)
(* tagged record; an exception that leaves a function is the record        *)
(* Raise(kind).  Floats are exact rationals n/d (d > 0) plus nan and inf.  *)
(***************************************************************************)
EXTENDS Integers, Sequences, FiniteSets, TLC

VARIABLES
    op,        \* the operation a caller has invoked, "done" once it has returned
    args,      \* the arguments of that invocation
    today,     \* the wall-clock date, [year, month]
    provider,  \* what the statistics provider answers: [status, rows]
    result,    \* the outcome of the invocation: Return(payload) or Raise(kind)
    calls,     \* the fetchers invoked during the invocation, in order
    route      \* the routing rule handle_nba_query took

vars == <<op, args, today, provider, result, calls, route>>

----------------------------------------------------------------------------
(* Text *)

UpperChars == <<"A","B","C","D","E","F","G","H","I","J","K","L","M",
                "N","O","P","Q","R","S","T","U","V","W","X","Y","Z">>

LowerChars == <<"a","b","c","d","e","f","g","h","i","j","k","l","m",
                "n","o","p","q","r","s","t","u","v","w","x","y","z">>

DigitChars == <<"0","1","2","3","4","5","6","7","8","9">>

\* str.lower() on one character
LowerChar(c) ==
    IF \E i \in 1..Len(UpperChars) : UpperChars[i] = c
    THEN LowerChars[CHOOSE i \in 1..Len(UpperChars) : UpperChars[i] = c]
    ELSE c

\* str.lower()
Lower(s) == [i \in 1..Len(s) |-> LowerChar(s[i])]

IsSpace(c) == c \in {" ", "\t", "\n"}

IsDigit(c) == \E i \in 1..Len(DigitChars) : DigitChars[i] = c

DigitVal(c) == (CHOOSE i \in 1..Len(DigitChars) : DigitChars[i] = c) - 1

RECURSIVE SplitFrom(_, _, _)
\* str.split() with no separator: the maximal runs of non-whitespace
SplitFrom(s, i, cur) ==
    IF i > Len(s)
    THEN IF cur = <<>> THEN <<>> ELSE <<cur>>
    ELSE IF IsSpace(s[i])
         THEN IF cur = <<>> THEN SplitFrom(s, i + 1, <<>>)
              ELSE <<cur>> \o SplitFrom(s, i + 1, <<>>)
         ELSE SplitFrom(s, i + 1, Append(cur, s[i]))

Split(s) == SplitFrom(s, 1, <<>>)

RECURSIVE Join(_, _)
\* sep.join(words)
Join(sep, words) ==
    IF words = <<>> THEN <<>>
    ELSE IF Len(words) = 1 THEN words[1]
    ELSE words[1] \o sep \o Join(sep, Tail(words))

\* the `in` operator on strings: sub occurs in s
Contains(s, sub) ==
    \E i \in 0..(Len(s) - Len(sub)) : SubSeq(s, i + 1, i + Len(sub)) = sub

\* " ".join(query.lower().split())
Normalize(q) == Join(<<" ">>, Split(Lower(q)))

RECURSIVE DigitsToInt(_)
DigitsToInt(s) ==
    IF s = <<>> THEN 0
    ELSE 10 * DigitsToInt(SubSeq(s, 1, Len(s) - 1)) + DigitVal(s[Len(s)])

RECURSIVE IntToStr(_)
\* str(n) for n >= 0
IntToStr(n) ==
    IF n < 10 THEN <<DigitChars[n + 1]>>
    ELSE IntToStr(n \div 10) \o <<DigitChars[(n % 10) + 1]>>

\* format(n, "02d") for n >= 0
Format02d(n) == IF n < 10 THEN <<"0">> \o IntToStr(n) ELSE IntToStr(n)

----------------------------------------------------------------------------
(* Python values *)

None == [t |-> "None"]
IntV(n) == [t |-> "int", v |-> n]
FloatV(n, d) == [t |-> "float", n |-> n, d |-> d]
NaN == [t |-> "nan"]
Inf == [t |-> "inf"]
StrV(s) == [t |-> "str", s |-> s]
\* a non-empty list, for a field of a type no caster accepts
ListV == [t |-> "list"]
Return(v) == [t |-> "return", v |-> v]
Raise(e) == [t |-> "raise", exc |-> e]

IsRaise(x) == x.t = "raise"

\* bool(x)
Truthy(x) ==
    CASE x.t = "None" -> FALSE
      [] x.t = "int" -> x.v # 0
      [] x.t = "float" -> x.n # 0
      [] x.t = "str" -> x.s # <<>>
      [] OTHER -> TRUE

\* x or y
Or(x, y) == IF Truthy(x) THEN x ELSE y

\* truncation toward zero of n/d, d > 0
Trunc(n, d) == IF n >= 0 THEN n \div d ELSE -((-n) \div d)

IsDigits(s) == s # <<>> /\ \A i \in 1..Len(s) : IsDigit(s[i])

\* int(x)
PyInt(x) ==
    CASE x.t = "int" -> x
      [] x.t = "float" -> IntV(Trunc(x.n, x.d))
      [] x.t = "nan" -> Raise("ValueError")
      [] x.t = "inf" -> Raise("OverflowError")
      [] x.t = "str" -> IF IsDigits(x.s) THEN IntV(DigitsToInt(x.s))
                        ELSE Raise("ValueError")
      [] OTHER -> Raise("TypeError")

\* float(x)
PyFloat(x) ==
    CASE x.t = "int" -> FloatV(x.v, 1)
      [] x.t = "float" -> x
      [] x.t = "nan" -> x
      [] x.t = "inf" -> x
      [] x.t = "str" -> IF IsDigits(x.s) THEN FloatV(DigitsToInt(x.s), 1)
                        ELSE Raise("ValueError")
      [] OTHER -> Raise("TypeError")

Cast(caster, x) == IF caster = "int" THEN PyInt(x) ELSE PyFloat(x)

\* Mapping.get(key, default); a row is a function from field names to values
Get(r, key, default) == IF key \in DOMAIN r THEN r[key] ELSE default

\* the empty dict
EmptyDict == <<>>

----------------------------------------------------------------------------
(* _extract_fields: a mapping is a sequence of entries                     *)
(* [key, source, caster, default], in the dict's iteration order           *)

RECURSIVE ExtractFrom(_, _, _, _)
ExtractFrom(r, m, i, extracted) ==
    IF i > Len(m) THEN Return(extracted)
    ELSE LET e == m[i]
             value == Get(r, e.source, e.default)
             cast == Cast(e.caster, IF value # None THEN value ELSE e.default)
         IN  IF ~IsRaise(cast)
             THEN ExtractFrom(r, m, i + 1, (e.key :> cast) @@ extracted)
             ELSE IF cast.exc \in {"TypeError", "ValueError"}
                  THEN ExtractFrom(r, m, i + 1, (e.key :> e.default) @@ extracted)
                  ELSE cast

extract_fields(r, m) == ExtractFrom(r, m, 1, EmptyDict)

----------------------------------------------------------------------------
(* _current_season *)

start_year(d) == IF d.month >= 10 THEN d.year ELSE d.year - 1

\* end_year without the reduction modulo 100
end_year_unwrapped(d) == start_year(d) + 1

end_year(d) == (start_year(d) + 1) % 100

current_season(d) == IntToStr(start_year(d)) \o <<"-">> \o Format02d(end_year(d))

----------------------------------------------------------------------------
(* The provider: [status, rows].  status "ok" is a successful call; the    *)
(* other two are the exceptions the fetchers catch.                        *)

ProviderFailures == {"RequestException", "NBAStatsHTTPException"}

\* Failed that also takes a call with no rows for a failure
Failed_on_empty(prov) == prov.status \in ProviderFailures \/ prov.rows = <<>>

Failed(prov) == prov.status \in ProviderFailures

\* season or _current_season()
target_season(season, d) == Or(season, StrV(current_season(d)))

IsNumber(x) == x.t \in {"int", "float", "nan", "inf"}

\* get_data_frames()[0]: in a column that holds a number, pandas stores a
\* null as NaN; in a column of nulls alone the null stays None
Frame(rows) ==
    [i \in 1..Len(rows) |->
        [c \in DOMAIN rows[i] |->
            IF rows[i][c] = None
               /\ \E j \in 1..Len(rows) : c \in DOMAIN rows[j] /\ IsNumber(rows[j][c])
            THEN NaN
            ELSE rows[i][c]]]

----------------------------------------------------------------------------
(* get_live_scores *)

GameSummary(game) ==
    LET home_team == Get(game, "homeTeam", EmptyDict)
        away_team == Get(game, "awayTeam", EmptyDict)
    IN  [gameId |-> Get(game, "gameId", None),
         homeTeam |-> Get(home_team, "teamTricode", StrV(<<"N", "/", "A">>)),
         awayTeam |-> Get(away_team, "teamTricode", StrV(<<"N", "/", "A">>)),
         homeScore |-> Get(home_team, "score", StrV(<<"0">>)),
         awayScore |-> Get(away_team, "score", StrV(<<"0">>)),
         status |-> Get(game, "gameStatusText",
                        StrV(<<"U", "n", "k", "n", "o", "w", "n">>))]

get_live_scores(prov) ==
    IF Failed(prov) THEN Raise("RuntimeError")
    ELSE Return([games |-> [i \in 1..Len(prov.rows) |-> GameSummary(prov.rows[i])]])

----------------------------------------------------------------------------
(* get_team_statistics, get_player_statistics *)

Entry(key, source, caster, default) ==
    [key |-> key, source |-> source, caster |-> caster, default |-> default]

F0 == FloatV(0, 1)

TeamMapping ==
    << Entry("wins", "W", "int", IntV(0)),
       Entry("losses", "L", "int", IntV(0)),
       Entry("winPct", "W_PCT", "float", F0),
       Entry("points", "PTS", "float", F0),
       Entry("rebounds", "REB", "float", F0),
       Entry("assists", "AST", "float", F0),
       Entry("steals", "STL", "float", F0),
       Entry("blocks", "BLK", "float", F0),
       Entry("turnovers", "TOV", "float", F0),
       Entry("plusMinus", "PLUS_MINUS", "float", F0) >>

PlayerMapping ==
    << Entry("points", "PTS", "float", F0),
       Entry("rebounds", "REB", "float", F0),
       Entry("assists", "AST", "float", F0),
       Entry("steals", "STL", "float", F0),
       Entry("blocks", "BLK", "float", F0),
       Entry("turnovers", "TOV", "float", F0),
       Entry("fieldGoalPct", "FG_PCT", "float", F0),
       Entry("threePointPct", "FG3_PCT", "float", F0),
       Entry("freeThrowPct", "FT_PCT", "float", F0),
       Entry("plusMinus", "PLUS_MINUS", "float", F0) >>

\* int(row.get("GP", 0) or 0)
games_played_of(r) == PyInt(Or(Get(r, "GP", IntV(0)), IntV(0)))

get_team_statistics(team_id, season, per_mode, prov, d) ==
    LET target == target_season(season, d)
        team_dashboard == prov.rows
        averages == extract_fields(team_dashboard[1], TeamMapping)
        gp == games_played_of(team_dashboard[1])
    IN  IF Failed(prov) THEN Raise("RuntimeError")
        ELSE IF team_dashboard = <<>>
        THEN Return([teamId |-> team_id, season |-> target, perMode |-> per_mode,
                     gamesPlayed |-> IntV(0), averages |-> EmptyDict])
        ELSE IF IsRaise(averages) THEN averages
        ELSE IF IsRaise(gp) THEN gp
        ELSE Return([teamId |-> team_id, season |-> target, perMode |-> per_mode,
                     gamesPlayed |-> gp, averages |-> averages.v])

get_player_statistics(player_id, season, per_mode, prov, d) ==
    LET target == target_season(season, d)
        player_dashboard == prov.rows
        averages == extract_fields(player_dashboard[1], PlayerMapping)
        gp == games_played_of(player_dashboard[1])
    IN  IF Failed(prov) THEN Raise("RuntimeError")
        ELSE IF player_dashboard = <<>>
        THEN Return([playerId |-> player_id, season |-> target, perMode |-> per_mode,
                     gamesPlayed |-> IntV(0), averages |-> EmptyDict])
        ELSE IF IsRaise(averages) THEN averages
        ELSE IF IsRaise(gp) THEN gp
        ELSE Return([playerId |-> player_id, season |-> target, perMode |-> per_mode,
                     gamesPlayed |-> gp, averages |-> averages.v])

----------------------------------------------------------------------------
(* Float arithmetic on FloatV, nan and inf *)

\* a + b, finite operands
Add(a, b) == FloatV(a.n * b.d + b.n * a.d, a.d * b.d)

\* a * (n/d), finite operand
Scale(a, n, d) == FloatV(a.n * n, a.d * d)

\* a / b for b = nan, b = inf or b > 0
Div(a, b) ==
    CASE b.t = "nan" -> NaN
      [] b.t = "inf" -> IF a.t = "float" THEN F0 ELSE NaN
      [] OTHER -> CASE a.t = "nan" -> NaN
                    [] a.t = "inf" -> Inf
                    [] OTHER -> FloatV(a.n * b.d, a.d * b.n)

\* x <= 0
LeqZero(x) == x.t = "float" /\ x.n <= 0

\* the first exception among the values, in evaluation order, or None
RECURSIVE FirstRaise(_)
FirstRaise(vals) ==
    IF vals = <<>> THEN None
    ELSE IF IsRaise(vals[1]) THEN vals[1]
    ELSE FirstRaise(Tail(vals))

----------------------------------------------------------------------------
(* get_player_prop_recommendations *)

\* Precedes with the assists key left out
Precedes_no_assists(a, b) ==
    \/ a["PTS"].v > b["PTS"].v
    \/ a["PTS"].v = b["PTS"].v /\ a["REB"].v > b["REB"].v

\* row a goes strictly before row b under
\* sort_values(by=["PTS", "REB", "AST"], ascending=False); integer keys
Precedes(a, b) ==
    \/ a["PTS"].v > b["PTS"].v
    \/ a["PTS"].v = b["PTS"].v /\ a["REB"].v > b["REB"].v
    \/ a["PTS"].v = b["PTS"].v /\ a["REB"].v = b["REB"].v /\ a["AST"].v > b["AST"].v

RECURSIVE InsertRow(_, _)
\* r goes after every row it does not strictly precede: equal keys keep
\* the order in which the rows arrive
InsertRow(sorted, r) ==
    IF sorted = <<>> THEN <<r>>
    ELSE IF Precedes(r, sorted[1]) THEN <<r>> \o sorted
    ELSE <<sorted[1]>> \o InsertRow(Tail(sorted), r)

RECURSIVE SortFrom(_, _, _)
SortFrom(frame, i, sorted) ==
    IF i > Len(frame) THEN sorted
    ELSE SortFrom(frame, i + 1, InsertRow(sorted, frame[i]))

\* frame.sort_values(by=["PTS", "REB", "AST"], ascending=False)
sort_values(frame) == SortFrom(frame, 1, <<>>)

\* DataFrame.head(n): the first n rows, or for n < 0 all rows but the last -n
head(frame, n) ==
    IF n >= 0
    THEN SubSeq(frame, 1, IF n < Len(frame) THEN n ELSE Len(frame))
    ELSE SubSeq(frame, 1, Len(frame) + n)

Recommendation(r) ==
    LET points == PyFloat(Or(Get(r, "PTS", F0), F0))
        rebounds == PyFloat(Or(Get(r, "REB", F0), F0))
        assists == PyFloat(Or(Get(r, "AST", F0), F0))
        playerId == PyInt(Or(Get(r, "PLAYER_ID", IntV(0)), IntV(0)))
        teamId == PyInt(Or(Get(r, "TEAM_ID", IntV(0)), IntV(0)))
        usagePct == PyFloat(Or(Get(r, "USG_PCT", F0), F0))
        failure == FirstRaise(<<points, rebounds, assists, playerId, teamId, usagePct>>)
    IN  IF failure # None THEN failure
        ELSE Return([playerId |-> playerId,
                     playerName |-> Get(r, "PLAYER_NAME",
                                        StrV(<<"U", "n", "k", "n", "o", "w", "n">>)),
                     teamId |-> teamId,
                     team |-> Get(r, "TEAM_ABBREVIATION", StrV(<<>>)),
                     points |-> points,
                     rebounds |-> rebounds,
                     assists |-> assists,
                     usagePct |-> usagePct,
                     propScore |-> Add(points, Add(Scale(rebounds, 3, 4),
                                                   Scale(assists, 3, 4)))])

get_player_prop_recommendations(season, per_mode, limit, prov, d) ==
    LET target == target_season(season, d)
        frame == Frame(prov.rows)
        subset == sort_values(frame)
        top == head(subset, limit)
        recs == [i \in 1..Len(top) |-> Recommendation(top[i])]
        failure == FirstRaise(recs)
    IN  IF Failed(prov) THEN Raise("RuntimeError")
        ELSE IF frame = <<>>
        THEN Return([season |-> target, perMode |-> per_mode, players |-> <<>>])
        ELSE IF failure # None THEN failure
        ELSE Return([season |-> target, perMode |-> per_mode,
                     players |-> [i \in 1..Len(recs) |-> recs[i].v]])

----------------------------------------------------------------------------
(* get_player_career_stats *)

CareerLabel == <<"C", "a", "r", "e", "e", "r">>

ZeroAverages == [ppg |-> F0, apg |-> F0, rpg |-> F0]

IsCareerRow(r) == r["SEASON_ID"] = StrV(CareerLabel)

get_player_career_stats(player_id, prov) ==
    LET career_data == Frame(prov.rows)
        labelled == SelectSeq(career_data, IsCareerRow)
        career_row == IF labelled = <<>>
                      THEN SubSeq(career_data, Len(career_data), Len(career_data))
                      ELSE labelled
        totals == career_row[1]
        games_played == PyFloat(Or(Get(totals, "GP", F0), F0))
        pts == PyFloat(Or(Get(totals, "PTS", F0), F0))
        ast == PyFloat(Or(Get(totals, "AST", F0), F0))
        reb == PyFloat(Or(Get(totals, "REB", F0), F0))
        failure == FirstRaise(<<pts, ast, reb>>)
    IN  IF Failed(prov) THEN Raise("RuntimeError")
        ELSE IF career_data = <<>> THEN Return(ZeroAverages)
        ELSE IF \E i \in 1..Len(career_data) : "SEASON_ID" \notin DOMAIN career_data[i]
        THEN Raise("KeyError")
        ELSE IF IsRaise(games_played) THEN games_played
        ELSE IF LeqZero(games_played) THEN Return(ZeroAverages)
        ELSE IF failure # None THEN failure
        ELSE Return([ppg |-> Div(pts, games_played),
                     apg |-> Div(ast, games_played),
                     rpg |-> Div(reb, games_played)])

----------------------------------------------------------------------------
(* _extract_first_integer: re.search(r"(\d+)", text), then int() *)

\* DigitRun that stops after one digit, as the pattern (\d) would
DigitRun_single(text, i) == <<text[i]>>

RECURSIVE DigitRun(_, _)
\* the maximal run of digits of text that starts at position i
DigitRun(text, i) ==
    IF i > Len(text) \/ ~IsDigit(text[i]) THEN <<>>
    ELSE <<text[i]>> \o DigitRun(text, i + 1)

extract_first_integer(text) ==
    IF \E i \in 1..Len(text) : IsDigit(text[i])
    THEN LET first == CHOOSE i \in 1..Len(text) :
                          /\ IsDigit(text[i])
                          /\ \A j \in 1..(i - 1) : ~IsDigit(text[j])
             value == PyInt(StrV(DigitRun(text, first)))
         IN  IF IsRaise(value) /\ value.exc = "ValueError" THEN None ELSE value
    ELSE None

----------------------------------------------------------------------------
(* handle_nba_query *)

KwNba == <<"n", "b", "a">>
KwLive == <<"l", "i", "v", "e">>
KwScore == <<"s", "c", "o", "r", "e">>
KwTeam == <<"t", "e", "a", "m">>
KwStat == <<"s", "t", "a", "t">>
KwPlayer == <<"p", "l", "a", "y", "e", "r">>
KwCareer == <<"c", "a", "r", "e", "e", "r">>
KwProp == <<"p", "r", "o", "p">>
KwBet == <<"b", "e", "t">>
KwOdds == <<"o", "d", "d", "s">>

DefaultLimit == 5

DefaultPerMode == "PerGame"

\* the closure _fallback over the cell fallback_payload; st is
\* [fallback_payload, calls]
Fallback(st, prov, d) ==
    IF st.fallback_payload = None
    THEN [fallback_payload |->
              get_player_prop_recommendations(None, DefaultPerMode, DefaultLimit, prov, d),
          calls |-> Append(st.calls, "get_player_prop_recommendations")]
    ELSE st

\* a branch that returns {"message": ..., "recommendations": _fallback()}
WithRecommendations(message, st, prov, d, rule) ==
    LET fb == Fallback(st, prov, d)
    IN  [result |-> IF IsRaise(fb.fallback_payload) THEN fb.fallback_payload
                    ELSE Return([message |-> message,
                                 recommendations |-> fb.fallback_payload.v]),
         calls |-> fb.calls, route |-> rule]

\* a branch that returns _fallback()
OnlyFallback(st, prov, d, rule) ==
    LET fb == Fallback(st, prov, d)
    IN  [result |-> fb.fallback_payload, calls |-> fb.calls, route |-> rule]

\* a branch that delegates to one fetcher
Delegate(name, outcome, st, rule) ==
    [result |-> outcome, calls |-> Append(st.calls, name), route |-> rule]

CareerPayload(player_id, averages) ==
    IF IsRaise(averages) THEN averages
    ELSE Return([playerId |-> player_id, careerAverages |-> averages.v])

\* matched_rule with rule (d) tested before rule (c)
matched_rule_stat_first(normalized) ==
    IF Contains(normalized, KwLive) /\ Contains(normalized, KwScore) THEN "a"
    ELSE IF Contains(normalized, KwTeam) /\ Contains(normalized, KwStat) THEN "b"
    ELSE IF Contains(normalized, KwPlayer) /\ Contains(normalized, KwStat) THEN "d"
    ELSE IF Contains(normalized, KwPlayer) /\ Contains(normalized, KwCareer) THEN "c"
    ELSE IF \/ Contains(normalized, KwProp)
            \/ Contains(normalized, KwBet)
            \/ Contains(normalized, KwOdds) THEN "e"
    ELSE "f"

\* the if-chain over the keyword tests: the first rule whose test holds
matched_rule(normalized) ==
    IF Contains(normalized, KwLive) /\ Contains(normalized, KwScore) THEN "a"
    ELSE IF Contains(normalized, KwTeam) /\ Contains(normalized, KwStat) THEN "b"
    ELSE IF Contains(normalized, KwPlayer) /\ Contains(normalized, KwCareer) THEN "c"
    ELSE IF Contains(normalized, KwPlayer) /\ Contains(normalized, KwStat) THEN "d"
    ELSE IF \/ Contains(normalized, KwProp)
            \/ Contains(normalized, KwBet)
            \/ Contains(normalized, KwOdds) THEN "e"
    ELSE "f"

\* fallback_cell with the payload computed before routing
fallback_cell_eager(prov, d) ==
    Fallback([fallback_payload |-> None, calls |-> <<>>], prov, d)

\* fallback_payload: Optional[Dict[str, Any]] = None, before any routing
fallback_cell(prov, d) == [fallback_payload |-> None, calls |-> <<>>]

handle_nba_query(q, prov, d) ==
    LET normalized == Normalize(q)
        st == fallback_cell(prov, d)
        rule == matched_rule(normalized)
        id == extract_first_integer(normalized)
    IN  IF ~Contains(normalized, KwNba)
        THEN [result |-> Raise("ValueError"), calls |-> <<>>, route |-> "rejected"]
        ELSE CASE rule = "a" ->
                  Delegate("get_live_scores", get_live_scores(prov), st, rule)
               [] rule = "b" ->
                  IF id = None
                  THEN WithRecommendations(
                           "Team stats requested without an explicit ID.",
                           st, prov, d, rule)
                  ELSE Delegate("get_team_statistics",
                                get_team_statistics(id, None, DefaultPerMode, prov, d),
                                st, rule)
               [] rule = "c" ->
                  IF id = None
                  THEN WithRecommendations(
                           "Player career stats requested without an ID.",
                           st, prov, d, rule)
                  ELSE Delegate("get_player_career_stats",
                                CareerPayload(id, get_player_career_stats(id, prov)),
                                st, rule)
               [] rule = "d" ->
                  IF id = None
                  THEN WithRecommendations(
                           "Player stats requested without an ID.",
                           st, prov, d, rule)
                  ELSE Delegate("get_player_statistics",
                                get_player_statistics(id, None, DefaultPerMode, prov, d),
                                st, rule)
               [] OTHER -> OnlyFallback(st, prov, d, rule)

----------------------------------------------------------------------------
(* Inputs *)

Pending == [t |-> "pending"]

NoRoute == "none"

\* 15 November 2024 and 15 March 2024, as [year, month]
Autumn == [year |-> 2024, month |-> 11]
Spring == [year |-> 2024, month |-> 3]

Season2023 == StrV(<<"2", "0", "2", "3", "-", "2", "4">>)

Abc == StrV(<<"a", "b", "c">>)

\* what a provider field can hold
FieldValues ==
    {None, IntV(0), IntV(7), IntV(-3), FloatV(7, 2), NaN, Inf,
     StrV(<<"7">>), Abc, StrV(<<>>), ListV}

StatFields ==
    {"GP", "W", "L", "W_PCT", "PTS", "REB", "AST", "STL", "BLK", "TOV",
     "PLUS_MINUS", "FG_PCT", "FG3_PCT", "FT_PCT"}

\* a well-formed row of a dashboard
GoodRow ==
    [f \in StatFields \cup {"SEASON_ID", "PLAYER_ID"} |->
        IF f = "SEASON_ID" THEN Season2023 ELSE IntV(1)]

Without(r, f) == [g \in DOMAIN r \ {f} |-> r[g]]

\* GoodRow with one field malformed or missing
MalformedRows ==
    {[GoodRow EXCEPT ![f] = x] : f \in StatFields, x \in FieldValues}
        \cup {Without(GoodRow, f) : f \in StatFields}

Ok(rows) == [status |-> "ok", rows |-> rows]

Failure(kind) == [status |-> kind, rows |-> <<>>]

Failures == {Failure(kind) : kind \in ProviderFailures}

----------------------------------------------------------------------------
(* handle_nba_query: its callers' queries.  A query holds a chosen set of  *)
(* the ten keywords, in the order of Keywords, and possibly an identifier  *)

Keywords ==
    <<KwNba, KwLive, KwScore, KwTeam, KwStat, KwPlayer, KwCareer, KwProp, KwBet, KwOdds>>

\* the keywords as they appear inside longer, capitalised words
VariedWords ==
    << <<"N", "B", "A">>, <<"L", "i", "v", "e">>, <<"S", "C", "O", "R", "E", "S">>,
       <<"T", "e", "a", "m">>, <<"S", "t", "a", "t", "s">>,
       <<"P", "l", "a", "y", "e", "r", "s">>, <<"C", "A", "R", "E", "E", "R">>,
       <<"P", "r", "o", "p", "s">>, <<"B", "e", "t", "t", "i", "n", "g">>,
       <<"O", "D", "D", "S">> >>

Styles == {"plain", "varied", "glued"}

DigitOptions == {<<>>, <<"4", "2">>, <<"7">>}

RECURSIVE Chosen(_, _, _)
\* the words of the set K of keyword indices, in order, from index i on
Chosen(words, K, i) ==
    IF i > Len(words) THEN <<>>
    ELSE IF i \in K THEN <<words[i]>> \o Chosen(words, K, i + 1)
    ELSE Chosen(words, K, i + 1)

QueryText(K, style, digits) ==
    LET tail == IF digits = <<>> THEN <<>> ELSE <<digits>>
    IN  CASE style = "plain" -> Join(<<" ">>, Chosen(Keywords, K, 1) \o tail)
          [] style = "glued" -> Join(<<>>, Chosen(Keywords, K, 1) \o tail)
          [] OTHER -> <<"\t">> \o Join(<<" ", "\t", " ">>, Chosen(VariedWords, K, 1) \o tail)
                        \o <<" ", "\n">>

QueryProviders ==
    Failures \cup {Ok(<<>>), Ok(<<GoodRow>>), Ok(<<[GoodRow EXCEPT !["GP"] = Abc]>>),
                   Ok(<<[GoodRow EXCEPT !["PTS"] = IntV(3)], GoodRow>>)}

InitQuery ==
    /\ op = "handle_nba_query"
    /\ args \in {[query |-> QueryText(K, style, digits), words |-> K,
                  style |-> style, digits |-> digits] :
                     K \in SUBSET (1..Len(Keywords)), style \in Styles,
                     digits \in DigitOptions}
    /\ today = Autumn
    /\ provider \in QueryProviders
    /\ result = Pending
    /\ calls = <<>>
    /\ route = NoRoute

HandleNbaQuery ==
    /\ op = "handle_nba_query"
    /\ result = Pending
    /\ LET out == handle_nba_query(args.query, provider, today)
       IN  /\ result' = out.result
           /\ calls' = out.calls
           /\ route' = out.route
    /\ UNCHANGED <<op, args, today, provider>>

SpecQuery == InitQuery /\ [][HandleNbaQuery]_vars

----------------------------------------------------------------------------
(* _extract_fields on its own: rows over the first MaxFields source fields *)
(* and mappings that declare any of the matching keys                      *)

MaxFields == 2

ProjectorKeys == <<"wins", "points", "rebounds", "assists">>

ProjectorSources == <<"W", "PTS", "REB", "AST">>

ProjectorValues ==
    {None, IntV(7), FloatV(7, 2), NaN, Inf, StrV(<<"7">>), Abc, ListV}

\* the declarations a key can have: a caster and a default it can cast
Declarations == {[caster |-> c, default |-> dflt] : c \in {"int", "float"}, dflt \in {IntV(0), F0}}

RECURSIVE BuildMapping(_, _, _)
\* the mapping that declares the keys of S, in order, as decl says
BuildMapping(S, decl, i) ==
    IF i > MaxFields THEN <<>>
    ELSE IF i \in S
         THEN <<Entry(ProjectorKeys[i], ProjectorSources[i],
                      decl[i].caster, decl[i].default)>>
                  \o BuildMapping(S, decl, i + 1)
         ELSE BuildMapping(S, decl, i + 1)

InitFields ==
    /\ op = "_extract_fields"
    /\ \E S \in SUBSET (1..MaxFields) : \E decl \in [S -> Declarations] :
       \E present \in SUBSET {ProjectorSources[i] : i \in 1..MaxFields} :
       \E r \in [present -> ProjectorValues] :
           args = [row |-> r, mapping |-> BuildMapping(S, decl, 1)]
    /\ today = Autumn
    /\ provider = Ok(<<>>)
    /\ result = Pending
    /\ calls = <<>>
    /\ route = NoRoute

ExtractFields ==
    /\ op = "_extract_fields"
    /\ result = Pending
    /\ result' = extract_fields(args.row, args.mapping)
    /\ UNCHANGED <<op, args, today, provider, calls, route>>

SpecFields == InitFields /\ [][ExtractFields]_vars

----------------------------------------------------------------------------
(* The fetchers called directly *)

MaxId == 2

MaxRows == 3

MaxCareerRows == 2

Seasons == {None, StrV(<<>>), Season2023}

PerModes == {"PerGame", "Totals"}

Dates == {Autumn, Spring}

SimpleProviders == Failures \cup {Ok(<<>>), Ok(<<GoodRow>>)}

\* a dashboard whose first row is malformed, alone or before a good row
MalformedDashboards ==
    {<<r>> : r \in MalformedRows} \cup {<<r, GoodRow>> : r \in MalformedRows}

InitStats ==
    /\ op \in {"get_team_statistics", "get_player_statistics"}
    /\ \/ /\ args \in [id : {IntV(i) : i \in 1..MaxId}, season : Seasons,
                         per_mode : PerModes]
          /\ today \in Dates
          /\ provider \in SimpleProviders
       \/ /\ args = [id |-> IntV(1), season |-> None, per_mode |-> DefaultPerMode]
          /\ today = Autumn
          /\ provider \in {Ok(rows) : rows \in MalformedDashboards}
    /\ result = Pending
    /\ calls = <<>>
    /\ route = NoRoute

GetTeamStatistics ==
    /\ op = "get_team_statistics"
    /\ result = Pending
    /\ result' = get_team_statistics(args.id, args.season, args.per_mode, provider, today)
    /\ UNCHANGED <<op, args, today, provider, calls, route>>

GetPlayerStatistics ==
    /\ op = "get_player_statistics"
    /\ result = Pending
    /\ result' = get_player_statistics(args.id, args.season, args.per_mode, provider, today)
    /\ UNCHANGED <<op, args, today, provider, calls, route>>

\* the values of PTS, REB and AST in the league table
StatValues == {0, 1}

Limits == (-(MaxRows + 1))..(MaxRows + 1)

\* row i of the league table; PLAYER_ID is its place in provider order
PropRow(i, key) ==
    [f \in {"PLAYER_ID", "PTS", "REB", "AST"} |->
        CASE f = "PLAYER_ID" -> IntV(i)
          [] f = "PTS" -> IntV(key[1])
          [] f = "REB" -> IntV(key[2])
          [] OTHER -> IntV(key[3])]

PropTables ==
    UNION {{[i \in 1..n |-> PropRow(i, keys[i])] :
               keys \in [1..n -> StatValues \X StatValues \X StatValues]} :
           n \in 1..MaxRows}

InitProps ==
    /\ op = "get_player_prop_recommendations"
    /\ \/ /\ args \in [season : Seasons, per_mode : PerModes, limit : Limits]
          /\ today \in Dates
          /\ provider \in Failures \cup {Ok(<<>>)}
       \/ /\ args \in [season : {None}, per_mode : {DefaultPerMode}, limit : Limits]
          /\ today = Autumn
          /\ provider \in {Ok(rows) : rows \in PropTables}
    /\ result = Pending
    /\ calls = <<>>
    /\ route = NoRoute

GetPlayerPropRecommendations ==
    /\ op = "get_player_prop_recommendations"
    /\ result = Pending
    /\ result' = get_player_prop_recommendations(args.season, args.per_mode, args.limit,
                                                 provider, today)
    /\ UNCHANGED <<op, args, today, provider, calls, route>>

\* the games-played cell of a career row: null, zero, negative or positive
CareerGames == {None, IntV(0), IntV(-1), IntV(2)}

CareerRows ==
    {[f \in {"SEASON_ID", "GP", "PTS", "AST", "REB"} |->
        CASE f = "SEASON_ID" -> label
          [] f = "GP" -> gp
          [] f = "PTS" -> pts
          [] f = "AST" -> IntV(4)
          [] OTHER -> IntV(6)] :
     label \in {StrV(CareerLabel), Season2023}, gp \in CareerGames,
     pts \in {IntV(0), IntV(10)}}

\* the career tables, with the GP column or without it
CareerTables ==
    LET full == UNION {[1..n -> CareerRows] : n \in 0..MaxCareerRows}
    IN  full \cup {[i \in 1..Len(rows) |-> Without(rows[i], "GP")] : rows \in full}

InitCareer ==
    /\ op = "get_player_career_stats"
    /\ args \in [id : {IntV(i) : i \in 1..MaxId}]
    /\ today = Autumn
    /\ provider \in Failures \cup {Ok(rows) : rows \in CareerTables}
    /\ result = Pending
    /\ calls = <<>>
    /\ route = NoRoute

GetPlayerCareerStats ==
    /\ op = "get_player_career_stats"
    /\ result = Pending
    /\ result' = get_player_career_stats(args.id, provider)
    /\ UNCHANGED <<op, args, today, provider, calls, route>>

InitFetchers == InitStats \/ InitProps \/ InitCareer

NextFetchers ==
    \/ GetTeamStatistics
    \/ GetPlayerStatistics
    \/ GetPlayerPropRecommendations
    \/ GetPlayerCareerStats

SpecFetchers == InitFetchers /\ [][NextFetchers]_vars

----------------------------------------------------------------------------
(* _current_season over reference dates *)

YearSpan == 3

Years == {1, 2, 99, 100, 101} \cup (1998..(1998 + YearSpan)) \cup {2023, 2024, 2099, 2100, 9999}

InitSeason ==
    /\ op = "_current_season"
    /\ args = <<>>
    /\ today \in [year : Years, month : 1..12]
    /\ provider = Ok(<<>>)
    /\ result = Pending
    /\ calls = <<>>
    /\ route = NoRoute

CurrentSeason ==
    /\ op = "_current_season"
    /\ result = Pending
    /\ result' = Return(StrV(current_season(today)))
    /\ UNCHANGED <<op, args, today, provider, calls, route>>

SpecSeason == InitSeason /\ [][CurrentSeason]_vars

----------------------------------------------------------------------------
(* _extract_first_integer on its own, and the lookups of handle_nba_query  *)
(* that use it: queries over nba, team, stat, player and career with       *)
(* digits before the words, after them, both or neither                    *)

MaxTextLen == 4

TextChars == {"a", " ", "0", "4", "7"}

Texts == UNION {[1..n -> TextChars] : n \in 0..MaxTextLen}

InitText ==
    /\ op = "_extract_first_integer"
    /\ args \in {[text |-> t] : t \in Texts}
    /\ today = Autumn
    /\ provider = Ok(<<>>)
    /\ result = Pending
    /\ calls = <<>>
    /\ route = NoRoute

ExtractFirstInteger ==
    /\ op = "_extract_first_integer"
    /\ result = Pending
    /\ result' = Return(extract_first_integer(args.text))
    /\ UNCHANGED <<op, args, today, provider, calls, route>>

LeadDigits == {<<>>, <<"7">>, <<"0", "0", "7">>}

TailDigits == {<<>>, <<"4", "2">>, <<"1", "6", "1", "0">>}

LookupWords == {K \cup N : K \in SUBSET {4, 5, 6, 7}, N \in {{}, {1}}}

LookupText(K, style, lead, tail) ==
    LET before == IF lead = <<>> THEN <<>> ELSE <<lead>>
        after == IF tail = <<>> THEN <<>> ELSE <<tail>>
    IN  CASE style = "plain" ->
                 Join(<<" ">>, before \o Chosen(Keywords, K, 1) \o after)
          [] style = "glued" ->
                 Join(<<>>, before \o Chosen(Keywords, K, 1) \o after)
          [] OTHER ->
                 <<"\t">> \o Join(<<" ", "\t", " ">>,
                                  before \o Chosen(VariedWords, K, 1) \o after)
                     \o <<" ", "\n">>

InitLookup ==
    /\ op = "handle_nba_query"
    /\ args \in {[query |-> LookupText(K, style, lead, tail), words |-> K,
                  style |-> style, lead |-> lead, digits |-> tail] :
                     K \in LookupWords, style \in Styles,
                     lead \in LeadDigits, tail \in TailDigits}
    /\ today \in Dates
    /\ provider \in QueryProviders
    /\ result = Pending
    /\ calls = <<>>
    /\ route = NoRoute

InitIdentifier == InitText \/ InitLookup

NextIdentifier == ExtractFirstInteger \/ HandleNbaQuery

SpecIdentifier == InitIdentifier /\ [][NextIdentifier]_vars

----------------------------------------------------------------------------
(* Properties of handle_nba_query, under SpecQuery *)

Returned == result.t # "pending"

QueryDone == op = "handle_nba_query" /\ Returned

\* keyword number k of Keywords was written into the query
HasWord(k) == k \in args.words

RuleA == HasWord(2) /\ HasWord(3)
RuleB == HasWord(4) /\ HasWord(5)
RuleC == HasWord(6) /\ HasWord(7)
RuleD == HasWord(6) /\ HasWord(5)
RuleE == HasWord(8) \/ HasWord(9) \/ HasWord(10)

HasId == args.digits # <<>>

FallbackName == "get_player_prop_recommendations"

FallbackCalls == Cardinality({i \in DOMAIN calls : calls[i] = FallbackName})

\* the fetcher a rule reaches
FetcherOf(rule) ==
    CASE rule = "a" -> "get_live_scores"
      [] rule = "b" /\ HasId -> "get_team_statistics"
      [] rule = "c" /\ HasId -> "get_player_career_stats"
      [] rule = "d" /\ HasId -> "get_player_statistics"
      [] OTHER -> FallbackName

\* C1: a query that mentions "nba" (in any case, with any spacing) takes
\* rule (a) iff it holds live and score; (b) iff it is not (a) and holds
\* team and stat; (c) iff neither and it holds player and career; (d) iff
\* none of these and it holds player and stat; (e) iff none of these and it
\* holds prop, bet or odds; (f) otherwise; and the one fetcher invoked is
\* the fetcher of that rule.
C1_FirstMatchWins ==
    (QueryDone /\ HasWord(1)) =>
        /\ route \in {"a", "b", "c", "d", "e", "f"}
        /\ (route = "a") <=> RuleA
        /\ (route = "b") <=> (~RuleA /\ RuleB)
        /\ (route = "c") <=> (~RuleA /\ ~RuleB /\ RuleC)
        /\ (route = "d") <=> (~RuleA /\ ~RuleB /\ ~RuleC /\ RuleD)
        /\ (route = "e") <=> (~RuleA /\ ~RuleB /\ ~RuleC /\ ~RuleD /\ RuleE)
        /\ calls = <<FetcherOf(route)>>

\* a query with player, career and stat, in capitals and odd spacing, and an
\* identifier, went to the career fetcher
C1_Witness ==
    /\ QueryDone
    /\ args.style = "varied"
    /\ {1, 5, 6, 7, 9} \subseteq args.words
    /\ HasId
    /\ route = "c"
    /\ calls = <<"get_player_career_stats">>
    /\ result.t = "return"

\* C2: the call ends in ValueError exactly when the query does not mention
\* "nba", and then no fetcher was invoked.
C2_ValueErrorIffNoNba ==
    QueryDone =>
        /\ (result.t = "raise" /\ result.exc = "ValueError") <=> ~HasWord(1)
        /\ ~HasWord(1) => calls = <<>>

\* C3: the prop fallback is invoked at most once in a call, and exactly in
\* the calls whose rule needs it: (e), (f), or (b), (c), (d) without digits;
\* when it is invoked nothing else is, and a query without "nba" invokes
\* nothing.
C3_FallbackOnlyWhenNeeded ==
    QueryDone =>
        /\ FallbackCalls <= 1
        /\ (FallbackCalls = 1) <=>
               /\ HasWord(1)
               /\ \/ route \in {"e", "f"}
                  \/ route \in {"b", "c", "d"} /\ ~HasId
        /\ FallbackCalls = 1 => calls = <<FallbackName>>

\* team stats asked without an identifier: the fallback ran once and its
\* payload is the recommendations
C3_Witness ==
    /\ QueryDone
    /\ route = "b"
    /\ ~HasId
    /\ FallbackCalls = 1
    /\ result.t = "return"
    /\ Len(result.v.recommendations.players) = 2

----------------------------------------------------------------------------
(* Properties of _extract_fields, under SpecFields *)

\* Python's == on two values of the model
PyEq(a, b) ==
    IF a.t \in {"int", "float"} /\ b.t \in {"int", "float"}
    THEN LET x == PyFloat(a)
             y == PyFloat(b)
         IN  x.n * y.d = y.n * x.d
    ELSE a.t \notin {"nan"} /\ a = b

\* a value that is not a number and does not spell one
WrongType(x) == x.t = "list" \/ (x.t = "str" /\ ~IsDigits(x.s))

\* the source field of entry e is absent from the row, null or of a wrong type
Degraded(r, e) ==
    \/ e.source \notin DOMAIN r
    \/ r[e.source] = None
    \/ WrongType(r[e.source])

\* C4: _extract_fields never raises, its result holds every declared key,
\* and a key whose source field is absent, null or of a wrong type holds
\* the declared default.
C4_ProjectorTotal ==
    (op = "_extract_fields" /\ Returned) =>
        /\ result.t = "return"
        /\ \A i \in 1..Len(args.mapping) :
               LET e == args.mapping[i]
               IN  /\ e.key \in DOMAIN result.v
                   /\ Degraded(args.row, e) => PyEq(result.v[e.key], e.default)

----------------------------------------------------------------------------
(* Properties of the fetchers, under SpecFetchers *)

\* the provider call succeeded with at least one row
GotRows == provider.status = "ok" /\ provider.rows # <<>>

PropsDone == op = "get_player_prop_recommendations" /\ Returned

\* C5: with a zero or negative limit and a non-empty provider result,
\* get_player_prop_recommendations returns an empty players list.
C5_NonPositiveLimitEmpty ==
    (PropsDone /\ GotRows /\ args.limit <= 0) =>
        result.t = "return" /\ result.v.players = <<>>

\* the three sort keys of a league row as one number, points first
Rank(r) ==
    LET base == 1 + CHOOSE m \in StatValues : \A x \in StatValues : x <= m
    IN  (r["PTS"].v * base + r["REB"].v) * base + r["AST"].v

\* provider row i is ranked ahead of provider row j: a higher key, or the
\* same key and an earlier place in provider order
Ahead(i, j) ==
    \/ Rank(provider.rows[i]) > Rank(provider.rows[j])
    \/ Rank(provider.rows[i]) = Rank(provider.rows[j]) /\ i < j

\* the provider places of the returned players
PlayerPlaces == [i \in 1..Len(result.v.players) |-> result.v.players[i].playerId.v]

CareerPlace ==
    IF \E i \in 1..Len(provider.rows) : provider.rows[i]["SEASON_ID"] = StrV(CareerLabel)
    THEN CHOOSE i \in 1..Len(provider.rows) :
             /\ provider.rows[i]["SEASON_ID"] = StrV(CareerLabel)
             /\ \A j \in 1..(i - 1) : provider.rows[j]["SEASON_ID"] # StrV(CareerLabel)
    ELSE Len(provider.rows)

\* the provider's games-played value of row r is absent, null, zero or negative
NoGames(r) ==
    \/ "GP" \notin DOMAIN r
    \/ r["GP"] = None
    \/ r["GP"].t = "int" /\ r["GP"].v <= 0

\* C7: on a non-empty career table the averages come from the row labelled
\* "Career", or from the last row when there is none; when that row's games
\* played is zero, negative, null or absent the result is all zeros, and
\* otherwise it is the row's points, assists and rebounds over its games.
C7_CareerRowAndZeroGames ==
    (op = "get_player_career_stats" /\ Returned /\ GotRows) =>
        /\ result.t = "return"
        /\ LET r == provider.rows[CareerPlace]
           IN  IF NoGames(r)
               THEN result.v = ZeroAverages
               ELSE result.v = [ppg |-> FloatV(r["PTS"].v, r["GP"].v),
                                apg |-> FloatV(r["AST"].v, r["GP"].v),
                                rpg |-> FloatV(r["REB"].v, r["GP"].v)]

\* the season of the two dates of Dates, written out
SeasonOf(d) ==
    IF d = Autumn THEN StrV(<<"2", "0", "2", "4", "-", "2", "5">>) ELSE Season2023

\* the season a fetcher is to report: the one asked for, or the date's
ResolvedSeason == IF args.season \in {None, StrV(<<>>)} THEN SeasonOf(today) ELSE args.season

\* C8: a provider call that succeeds with no rows is answered, not failed:
\* the two dashboards with the requested id, the resolved season, the
\* per-mode, gamesPlayed 0 and empty averages; the career fetcher with
\* all-zero averages; the prop fetcher with an empty players list.
C8_EmptyResultIsNoError ==
    (Returned /\ provider = Ok(<<>>)) =>
        CASE op = "get_team_statistics" ->
                 result = Return([teamId |-> args.id, season |-> ResolvedSeason,
                                  perMode |-> args.per_mode, gamesPlayed |-> IntV(0),
                                  averages |-> EmptyDict])
          [] op = "get_player_statistics" ->
                 result = Return([playerId |-> args.id, season |-> ResolvedSeason,
                                  perMode |-> args.per_mode, gamesPlayed |-> IntV(0),
                                  averages |-> EmptyDict])
          [] op = "get_player_career_stats" ->
                 result = Return([ppg |-> F0, apg |-> F0, rpg |-> F0])
          [] op = "get_player_prop_recommendations" ->
                 /\ result.t = "return"
                 /\ result.v.players = <<>>
                 /\ result.v.season = ResolvedSeason
                 /\ result.v.perMode = args.per_mode

\* team statistics asked in March 2024 without a season, no rows back
C8_Witness ==
    /\ op = "get_team_statistics"
    /\ Returned
    /\ provider = Ok(<<>>)
    /\ args.season = None
    /\ args.per_mode = "Totals"
    /\ today = Spring
    /\ result.t = "return"
    /\ result.v.season = Season2023
    /\ result.v.gamesPlayed = IntV(0)

\* the mapping the dashboard fetcher op declares
MappingOf(name) == IF name = "get_team_statistics" THEN TeamMapping ELSE PlayerMapping

\* the GP field of row r is absent, null or not castable to an integer
NoGamesPlayed(r) ==
    \/ "GP" \notin DOMAIN r
    \/ r["GP"] = None
    \/ WrongType(r["GP"])
    \/ r["GP"].t \in {"nan", "inf"}

\* C9: when the provider returns a row, the two dashboard fetchers return:
\* gamesPlayed is an integer, 0 when GP is absent, null or not castable,
\* and averages holds every declared key, with the declared default for
\* each field that is absent, null or of a wrong type.
C9_MalformedFirstRowDegrades ==
    (op \in {"get_team_statistics", "get_player_statistics"} /\ Returned /\ GotRows) =>
        /\ result.t = "return"
        /\ result.v.gamesPlayed.t = "int"
        /\ NoGamesPlayed(provider.rows[1]) => result.v.gamesPlayed = IntV(0)
        /\ \A i \in 1..Len(MappingOf(op)) :
               LET e == MappingOf(op)[i]
               IN  /\ e.key \in DOMAIN result.v.averages
                   /\ Degraded(provider.rows[1], e) =>
                          PyEq(result.v.averages[e.key], e.default)

----------------------------------------------------------------------------
(* Properties of _current_season, under SpecSeason *)

\* C10: the season string is the decimal start year, a dash and two
\* digits that read (start + 1) mod 100, where start is the year from
\* October on and the year before otherwise.
C10_SeasonString ==
    (op = "_current_season" /\ Returned) =>
        LET text == result.v.s
            start == IF today.month >= 10 THEN today.year ELSE today.year - 1
            head_part == SubSeq(text, 1, Len(text) - 3)
            tail_part == SubSeq(text, Len(text) - 1, Len(text))
        IN  /\ Len(text) >= 4
            /\ text[Len(text) - 2] = "-"
            /\ IsDigits(head_part)
            /\ Len(head_part) > 1 => head_part[1] # "0"
            /\ DigitsToInt(head_part) = start
            /\ IsDigits(tail_part)
            /\ DigitsToInt(tail_part) = (start + 1) % 100

\* December 1999: the start year ends in 99 and the season is "1999-00"
C10_Witness ==
    /\ op = "_current_season"
    /\ Returned
    /\ today = [year |-> 1999, month |-> 12]
    /\ result = Return(StrV(<<"1", "9", "9", "9", "-", "0", "0">>))

----------------------------------------------------------------------------
(* Properties of _extract_first_integer, under SpecIdentifier *)

RECURSIVE ValueFrom(_, _, _)
\* the number a digit string spells, read from the left
ValueFrom(digits, k, acc) ==
    IF k > Len(digits) THEN acc
    ELSE ValueFrom(digits, k + 1,
                   10 * acc + (CHOOSE v \in 0..9 : DigitChars[v + 1] = digits[k]))

DigitAt(text, i) == text[i] \in {"0", "1", "2", "3", "4", "5", "6", "7", "8", "9"}

\* positions i..j of text are its leftmost maximal run of digits
LeftmostRun(text, i, j) ==
    /\ \A k \in 1..(i - 1) : ~DigitAt(text, k)
    /\ \A k \in i..j : DigitAt(text, k)
    /\ j = Len(text) \/ ~DigitAt(text, j + 1)

\* the identifier a lookup query spells: its leading digits, or else its
\* trailing digits, as numbers written out
SpelledId ==
    CASE args.lead = <<"7">> -> 7
      [] args.lead = <<"0", "0", "7">> -> 7
      [] args.digits = <<"4", "2">> -> 42
      [] OTHER -> 1610

LookupHasId == args.lead # <<>> \/ args.digits # <<>>

LookupFetcher ==
    CASE route = "b" -> "get_team_statistics"
      [] route = "c" -> "get_player_career_stats"
      [] OTHER -> "get_player_statistics"

C11_TextWitness ==
    /\ op = "_extract_first_integer"
    /\ Returned
    /\ MaxTextLen >= 4
    /\ args.text = <<"a", "4", "0", " ">>
    /\ result = Return(IntV(40))

====
